---- MODULE Spec2Model ----
(***************************************************************************)
(* A model of btc_bot.py: the analysis routines (calculate_atr,            *)
(* determine_trend, find_key_levels, find_round_levels, check_patterns,    *)
(* get_reserve_move), the archive writer save_to_archive and the           *)
(* orchestrator main.                                                      *)
(*                                                                         *)
(* Prices are integers.  A float that may be NaN, or a quotient that is    *)
(* not an integer (a rolling mean), is a record [nan, num, den] standing   *)
(* for num/den; comparisons on it are cross-multiplied, so they are exact. *)
(* A data frame is [bars, has_atr, atr]: the candle rows, whether the      *)
(* frame carries the 'atr' column, and that column.  The timestamp of the  *)
(* i-th row of a frame is i (rows are in ascending time order).            *)
(***************************************************************************)
EXTENDS Integers, Sequences, FiniteSets, TLC

VARIABLES
  pc,              \* position of main, or "call"/"ret" around a single routine
  runs,            \* number of invocations of main started so far
  date_str,        \* main: the invocation's wall-clock time
  df_1h,           \* main: hourly frame
  df_1d,           \* main: daily frame
  local_trend,     \* main: result of determine_trend, first component
  global_trend,    \* main: result of determine_trend, second component
  key_levels,      \* main: result of find_key_levels
  round_level,     \* main: result of find_round_levels
  patterns,        \* main: result of check_patterns
  reserve_status,  \* main: result of get_reserve_move
  files,           \* the archive: path -> [exists, rows]
  log,             \* levels of the records logged by the current invocation
  files0,          \* history: the archive when the current invocation started
  executed,        \* history: analysis routines the current invocation called
  raised_at,       \* history: where the current invocation raised ("" if not)
  saved,           \* history: datasets the current invocation has saved, in order
  calls,           \* history: path -> the (rows, header) of each save to it
  args,            \* arguments of the routine under test
  ret              \* its result

vars == <<pc, runs, date_str, df_1h, df_1d, local_trend, global_trend,
          key_levels, round_level, patterns, reserve_status, files, log,
          files0, executed, raised_at, saved, calls, args, ret>>

----------------------------------------------------------------------------
(* Program constants *)

ATR_PERIOD == 14

KEY_WINDOW == 20

ROUND_LEVELS == <<1000, 500, 100>>

BASE_FILES == [levels |-> "btc_levels_data", patterns |-> "btc_patterns_data",
               ohlcv_1h |-> "btc_ohlcv_1h", ohlcv_1d |-> "btc_ohlcv_1d"]

----------------------------------------------------------------------------
(* Bounds of the model *)

MaxPrice == 3

MaxLen == 3

MaxPeriod == 2

MaxRuns == 2

MaxLevels == 1

MaxDaily == 6

MaxKeyLen == 22

MaxRoundPrice == 1100

MaxCalls == 3

----------------------------------------------------------------------------
(* Arithmetic and sequences *)

Abs(x) == IF x < 0 THEN -x ELSE x

Max(S) == CHOOSE x \in S : \A y \in S : y <= x

Min(S) == CHOOSE x \in S : \A y \in S : x <= y

SeqsUpTo(S, n) == UNION { [1..k -> S] : k \in 0..n }

RECURSIVE SumOver(_, _)
SumOver(f, S) ==
  IF S = {} THEN 0
  ELSE LET x == CHOOSE y \in S : TRUE IN f[x] + SumOver(f, S \ {x})

Num(x) == [nan |-> FALSE, num |-> x, den |-> 1]

NaN == [nan |-> TRUE, num |-> 0, den |-> 1]

----------------------------------------------------------------------------
(* Candles and frames *)

Bar(h, l, c) == [high |-> h, low |-> l, close |-> c]

Prices == 1..MaxPrice

\* candles with low <= close <= high
Bars == { b \in [high : Prices, low : Prices, close : Prices] :
            b.low <= b.close /\ b.close <= b.high }

Frame(bars) == [bars |-> bars, has_atr |-> FALSE, atr |-> <<>>]

Empty(df) == Len(df.bars) = 0

Timestamp(df, i) == i

----------------------------------------------------------------------------
(* calculate_atr *)

\* df['close'].shift(): the previous row's close, NaN on the first row
ShiftClose(df, i) == IF i = 1 THEN NaN ELSE Num(df.bars[i - 1].close)

\* (a - b).abs() where b may be NaN
AbsDiff(a, b) == IF b.nan THEN NaN ELSE Num(Abs(a - b.num))

HighLow(df, i) == Num(df.bars[i].high - df.bars[i].low)

HighClose(df, i) == AbsDiff(df.bars[i].high, ShiftClose(df, i))

LowClose(df, i) == AbsDiff(df.bars[i].low, ShiftClose(df, i))

\* DataFrame.max(axis=1): the greatest of the row's values that are not NaN
RowMax(vals) ==
  LET S == { v.num : v \in { w \in vals : ~w.nan } }
  IN  IF S = {} THEN NaN ELSE Num(Max(S))

TrueRangeMutNoAbs(df, i) ==
  RowMax({ HighLow(df, i),
           IF i = 1 THEN NaN ELSE Num(df.bars[i].high - df.bars[i - 1].close),
           IF i = 1 THEN NaN ELSE Num(df.bars[i].low - df.bars[i - 1].close) })

TrueRange(df, i) == RowMax({ HighLow(df, i), HighClose(df, i), LowClose(df, i) })

\* the rows of Series.rolling(window, min_periods=1) at row i: the trailing
\* window rows ending at i, fewer near the start of the series
RollingWindow(window, i) == { j \in 1..i : j > i - window }

\* Series.rolling(window, min_periods=1).mean() at row i: the mean of the
\* values of the trailing window that are not NaN, NaN when there is none
RollingMean(col, window, i) ==
  LET Obs == { j \in RollingWindow(window, i) : ~col[j].nan }
  IN  IF Cardinality(Obs) < 1 THEN NaN
      ELSE [nan |-> FALSE,
            num |-> SumOver([j \in Obs |-> col[j].num], Obs),
            den |-> Cardinality(Obs)]

calculate_atr(df, period) ==
  IF Empty(df) THEN df
  ELSE LET n  == Len(df.bars)
           tr == [i \in 1..n |-> TrueRange(df, i)]
       IN  [bars |-> df.bars, has_atr |-> TRUE,
            atr |-> [i \in 1..n |-> RollingMean(tr, period, i)]]

----------------------------------------------------------------------------
(* determine_trend *)

\* df['close'].iloc[-k]: the close of the k-th row from the end
CloseFromEnd(df, k) == df.bars[Len(df.bars) - k + 1].close

GlobalTrend(df) ==
  IF Len(df.bars) >= 6
    THEN IF CloseFromEnd(df, 1) > CloseFromEnd(df, 5) THEN "long" ELSE "short"
    ELSE "none"

\* <<local_trend, global_trend>>; Python's None is "none"
determine_trend(h, d) ==
  IF Empty(h) \/ Empty(d) THEN <<"none", "none">>
  ELSE LET current_price    == CloseFromEnd(h, 1)
           last_daily_close == CloseFromEnd(d, 1)
       IN  << IF current_price > last_daily_close THEN "long" ELSE "short",
              GlobalTrend(d) >>

----------------------------------------------------------------------------
(* find_key_levels *)

Level(type, price, ts) == [type |-> type, price |-> price, ts |-> ts]

\* Series.rolling(window, min_periods=1).max() / .min() at row i
RollingMax(df, window, i) == Max({ df.bars[j].high : j \in RollingWindow(window, i) })

RollingMin(df, window, i) == Min({ df.bars[j].low : j \in RollingWindow(window, i) })

\* one pass of the loop body for row i
LevelsAt(df, i) ==
  (IF df.bars[i].high = RollingMax(df, KEY_WINDOW, i)
     THEN << Level("resistance", df.bars[i].high, Timestamp(df, i)) >> ELSE <<>>)
  \o
  (IF df.bars[i].low = RollingMin(df, KEY_WINDOW, i)
     THEN << Level("support", df.bars[i].low, Timestamp(df, i)) >> ELSE <<>>)

\* the rows range(1, len(df)-1) visits, as 1-based row numbers
KeyRangeMutToEnd(df) == 2..Len(df.bars)

KeyRange(df) == 2..(Len(df.bars) - 1)

RECURSIVE KeyLoop(_, _, _)
KeyLoop(df, i, last) ==
  IF i > last THEN <<>> ELSE LevelsAt(df, i) \o KeyLoop(df, i + 1, last)

find_key_levels(df) ==
  IF Empty(df) \/ KeyRange(df) = {} THEN <<>>
  ELSE KeyLoop(df, Min(KeyRange(df)), Max(KeyRange(df)))

----------------------------------------------------------------------------
(* find_round_levels *)

None == [none |-> TRUE, v |-> 0]

Some(x) == [none |-> FALSE, v |-> x]

\* round(price / level) for price >= 0, level > 0: Python 3 rounds a half
\* to the even neighbour
PyRound(price, level) ==
  LET q == price \div level
      r == price % level
  IN  IF 2 * r < level THEN q
      ELSE IF 2 * r > level THEN q + 1
      ELSE IF q % 2 = 0 THEN q ELSE q + 1

\* abs(price - rounded) < level * 0.1
WithinToleranceMutLoose(price, rounded, level) == Abs(price - rounded) * 2 < level

WithinTolerance(price, rounded, level) == Abs(price - rounded) * 10 < level

RECURSIVE RoundLoop(_, _)
RoundLoop(price, round_levels) ==
  IF round_levels = <<>> THEN None
  ELSE LET level   == Head(round_levels)
           rounded == PyRound(price, level) * level
       IN  IF WithinTolerance(price, rounded, level) THEN Some(rounded)
           ELSE RoundLoop(price, Tail(round_levels))

\* price is [nan, num, den] with den = 1
find_round_levels(price, round_levels) ==
  IF price.nan THEN None ELSE RoundLoop(price.num, round_levels)

----------------------------------------------------------------------------
(* check_patterns *)

Signal(kind, price, ts) == [kind |-> kind, price |-> price, ts |-> ts]

IsFalseBreakoutMutPrevClose(prev_bar, last_bar, lv) ==
  \/ (prev_bar.close > lv.price /\ last_bar.close < lv.price /\ lv.type = "resistance")
  \/ (prev_bar.close < lv.price /\ last_bar.close > lv.price /\ lv.type = "support")

IsFalseBreakout(prev_bar, last_bar, lv) ==
  \/ (prev_bar.high > lv.price /\ last_bar.close < lv.price /\ lv.type = "resistance")
  \/ (prev_bar.low < lv.price /\ last_bar.close > lv.price /\ lv.type = "support")

IsBreakoutMutHigh(prev_bar, last_bar, lv) ==
  last_bar.high > lv.price /\ prev_bar.close < lv.price /\ lv.type = "resistance"

IsBreakout(prev_bar, last_bar, lv) ==
  last_bar.close > lv.price /\ prev_bar.close < lv.price /\ lv.type = "resistance"

\* last_bar.get('atr', 0) if 'atr' in last_bar.index else 0
AtrValMutDefault(df) == IF df.has_atr THEN df.atr[Len(df.bars)] ELSE Num(1000)

AtrVal(df) == IF df.has_atr THEN df.atr[Len(df.bars)] ELSE Num(0)

\* abs(last_bar['low'] - level_price) < atr_val * 0.1, for atr_val = num/den
IsBounce(last_bar, atr_val, lv) ==
  /\ lv.type = "support"
  /\ ~atr_val.nan
  /\ Abs(last_bar.low - lv.price) * 10 * atr_val.den < atr_val.num
  /\ last_bar.close > lv.price

\* one pass of the loop body for level lv
SignalsFor(df, lv) ==
  LET n         == Len(df.bars)
      last_bar  == df.bars[n]
      prev_bar  == df.bars[n - 1]
      ts        == Timestamp(df, n)
  IN  (IF IsFalseBreakout(prev_bar, last_bar, lv)
         THEN << Signal("false_breakout", lv.price, ts) >> ELSE <<>>)
      \o
      (IF IsBreakout(prev_bar, last_bar, lv)
         THEN << Signal("breakout", lv.price, ts) >> ELSE <<>>)
      \o
      (IF IsBounce(last_bar, AtrVal(df), lv)
         THEN << Signal("bounce", lv.price, ts) >> ELSE <<>>)

RECURSIVE PatternLoop(_, _)
PatternLoop(df, levels) ==
  IF levels = <<>> THEN <<>>
  ELSE SignalsFor(df, Head(levels)) \o PatternLoop(df, Tail(levels))

\* df.shape[0] < 2
TooShort(df) == Len(df.bars) < 2

check_patterns(df, levels) ==
  IF TooShort(df) THEN <<>> ELSE PatternLoop(df, levels)

----------------------------------------------------------------------------
(* get_reserve_move *)

\* atr is [nan, num, den]; price_move > atr * 0.75
get_reserve_move(h, d, atr) ==
  IF Empty(h) \/ Empty(d) \/ atr.nan THEN "no_data"
  ELSE LET price_move == Abs(CloseFromEnd(h, 1) - CloseFromEnd(d, 1))
       IN  IF price_move * 4 * atr.den > 3 * atr.num THEN "exhausted"
           ELSE "normal"

----------------------------------------------------------------------------
(* The archive: get_archive_path and save_to_archive *)

\* date_str values: '%Y-%m-%d %H:%M:%S' read back as its fields
Dates == [year : {2026}, month : {11}, day : {5, 6}, hour : {9, 21}]

\* archive/YYYY/MM/week_XX/DD: the time of day is dropped; the ISO week is a
\* function of (year, month, day), so it never tells two directories apart
get_archive_path(d) == <<d.year, d.month, d.day>>

\* archive_dir/DD_<base_filename>.csv
FilePath(d, base_filename) == [dir |-> get_archive_path(d), name |-> base_filename]

BaseNames == { BASE_FILES.levels, BASE_FILES.patterns,
               BASE_FILES.ohlcv_1h, BASE_FILES.ohlcv_1d }

Paths == { FilePath(d, b) : d \in Dates, b \in BaseNames }

NoFile == [exists |-> FALSE, rows |-> <<>>]

\* a line of a csv file: the header line (the column names) or a data line
HeaderRow(columns) == [hdr |-> TRUE, cols |-> columns, data |-> <<>>]

DataRow(r) == [hdr |-> FALSE, cols |-> <<>>, data |-> <<r>>]

DataRows(table) == [i \in 1..Len(table.rows) |-> DataRow(table.rows[i])]

\* mode = 'a' if os.path.exists(file_path) else 'w'
ModeMutAlwaysW(f) == "w"

Mode(f) == IF f.exists THEN "a" ELSE "w"

\* df.to_csv(file_path, mode=mode, header=header and mode == 'w', index=False)
to_csv(f, table, mode, header) ==
  [exists |-> TRUE,
   rows   |-> (IF mode = "a" THEN f.rows ELSE <<>>)
              \o (IF header THEN << HeaderRow(table.columns) >> ELSE <<>>)
              \o DataRows(table)]

save_to_archive(fs, table, base_filename, d, header) ==
  LET file_path == FilePath(d, base_filename)
      mode      == Mode(fs[file_path])
  IN  [fs EXCEPT ![file_path] = to_csv(fs[file_path], table, mode,
                                       header /\ mode = "w")]

\* pd.DataFrame(key_levels, columns=["type", "price", "timestamp"])
LevelsTable(lv) == [columns |-> <<"type", "price", "timestamp">>, rows |-> lv]

\* pd.DataFrame(patterns, columns=["pattern", "level_price", "timestamp"])
PatternsTable(sg) == [columns |-> <<"pattern", "level_price", "timestamp">>, rows |-> sg]

\* a candle frame as a table (the columns the analysis does not read, and the
\* intermediate true-range columns, ride along and are left out)
OhlcvTable(df) ==
  [columns |-> IF Empty(df) THEN <<>>
               ELSE <<"timestamp", "high", "low", "close">>
                    \o (IF df.has_atr THEN <<"atr">> ELSE <<>>),
   rows    |-> [i \in 1..Len(df.bars) |->
                 [timestamp |-> Timestamp(df, i), bar |-> df.bars[i],
                  atr |-> IF df.has_atr THEN df.atr[i] ELSE NaN]]]

----------------------------------------------------------------------------
(* main *)

NoDate == [year |-> 0, month |-> 0, day |-> 0, hour |-> 0]

\* what fetch_ohlcv may return: no rows, too few rows for a key level, rows
\* that give key levels and a bounce, rows that give key levels and no pattern
HourlyFetch ==
  { <<>>,
    << Bar(3, 1, 2), Bar(3, 1, 2) >>,
    << Bar(3, 1, 2), Bar(3, 1, 2), Bar(3, 1, 2) >>,
    << Bar(2, 2, 2), Bar(2, 2, 2), Bar(2, 2, 2) >> }

DailyFetch == { <<>>, << Bar(3, 1, 2) >> }

AnalysisSteps == { "calculate_atr", "determine_trend", "find_key_levels",
                   "find_round_levels", "check_patterns", "get_reserve_move" }

ResetLocals ==
  /\ df_1h' = Frame(<<>>)
  /\ df_1d' = Frame(<<>>)
  /\ local_trend' = "none"
  /\ global_trend' = "none"
  /\ key_levels' = <<>>
  /\ round_level' = None
  /\ patterns' = <<>>
  /\ reserve_status' = ""

locals == <<df_1h, df_1d, local_trend, global_trend, key_levels, round_level,
            patterns, reserve_status>>

results == <<local_trend, global_trend, key_levels, round_level, patterns,
             reserve_status>>

history == <<runs, date_str, files0>>

SaveStep(table, name) ==
  /\ files' = save_to_archive(files, table, name, date_str, TRUE)
  /\ saved' = Append(saved, name)

\* except Exception as e: logging.exception(...)
Caught(at) ==
  /\ pc' = "failed"
  /\ raised_at' = at
  /\ log' = Append(log, "exception")

\* the scheduler starts an invocation; main reads the clock and logs the start
Start ==
  /\ pc \in {"idle", "done", "failed"}
  /\ runs < MaxRuns
  /\ runs' = runs + 1
  /\ date_str' \in Dates
  /\ log' = << "info" >>
  /\ files0' = files
  /\ executed' = {}
  /\ raised_at' = ""
  /\ saved' = <<>>
  /\ ResetLocals
  /\ pc' = "fetch_1h"
  /\ UNCHANGED <<files, calls, args, ret>>

Fetch1h ==
  /\ pc = "fetch_1h"
  /\ \E bars \in HourlyFetch : df_1h' = Frame(bars)
  /\ pc' = "fetch_1d"
  /\ UNCHANGED <<df_1d, results, files, log, executed, raised_at, saved,
                 history, calls, args, ret>>

Fetch1dMutSavesRaw ==
  /\ pc = "fetch_1d"
  /\ \E bars \in DailyFetch : df_1d' = Frame(bars)
  /\ files' = save_to_archive(files, OhlcvTable(df_1h), BASE_FILES.ohlcv_1h,
                              date_str, TRUE)
  /\ pc' = "check_empty"
  /\ UNCHANGED <<df_1h, results, log, executed, raised_at, saved, history,
                 calls, args, ret>>

Fetch1d ==
  /\ pc = "fetch_1d"
  /\ \E bars \in DailyFetch : df_1d' = Frame(bars)
  /\ pc' = "check_empty"
  /\ UNCHANGED <<df_1h, results, files, log, executed, raised_at, saved,
                 history, calls, args, ret>>

\* requests.get fails, resp.json() fails, or the API answers with an error code
FetchRaises ==
  /\ pc \in {"fetch_1h", "fetch_1d"}
  /\ Caught(pc)
  /\ UNCHANGED <<locals, files, executed, saved, history, calls, args, ret>>

EmptyFetchedMutBoth(h, d) == Empty(h) /\ Empty(d)

\* if df_1h.empty or df_1d.empty
EmptyFetched(h, d) == Empty(h) \/ Empty(d)

CheckEmpty ==
  /\ pc = "check_empty"
  /\ IF EmptyFetched(df_1h, df_1d)
       THEN /\ log' = Append(log, "warning")
            /\ pc' = "done"
       ELSE /\ log' = log
            /\ pc' = "analyse"
  /\ UNCHANGED <<locals, files, executed, raised_at, saved, history, calls,
                 args, ret>>

\* lines 165-173.  An empty hourly frame gets past calculate_atr,
\* determine_trend and find_key_levels and raises IndexError at
\* df_1h['close'].iloc[-1]
Analyse ==
  /\ pc = "analyse"
  /\ IF Empty(df_1h)
       THEN /\ executed' = {"calculate_atr", "determine_trend", "find_key_levels"}
            /\ Caught("analyse")
            /\ UNCHANGED locals
       ELSE LET h  == calculate_atr(df_1h, ATR_PERIOD)
                d  == calculate_atr(df_1d, ATR_PERIOD)
                t  == determine_trend(h, d)
                kl == find_key_levels(h)
                atr_daily == IF d.has_atr THEN d.atr[Len(d.bars)] ELSE NaN
            IN  /\ df_1h' = h
                /\ df_1d' = d
                /\ local_trend' = t[1]
                /\ global_trend' = t[2]
                /\ key_levels' = kl
                /\ round_level' = find_round_levels(Num(CloseFromEnd(h, 1)), ROUND_LEVELS)
                /\ patterns' = check_patterns(h, kl)
                /\ reserve_status' = get_reserve_move(h, d, atr_daily)
                /\ executed' = AnalysisSteps
                /\ pc' = "save_levels"
                /\ UNCHANGED <<log, raised_at>>
  /\ UNCHANGED <<files, saved, history, calls, args, ret>>

\* a fetched frame with fewer columns than the analysis reads (fetch_ohlcv
\* truncates the schema to the columns received): calculate_atr raises KeyError
AnalyseRaises ==
  /\ pc = "analyse"
  /\ executed' = {"calculate_atr"}
  /\ Caught("analyse")
  /\ UNCHANGED <<locals, files, saved, history, calls, args, ret>>

\* if key_levels: save_to_archive(df_levels, BASE_FILES["levels"], date_str)
SaveLevels ==
  /\ pc = "save_levels"
  /\ IF key_levels # <<>>
       THEN SaveStep(LevelsTable(key_levels), BASE_FILES.levels)
       ELSE UNCHANGED <<files, saved>>
  /\ pc' = "save_patterns"
  /\ UNCHANGED <<locals, log, executed, raised_at, history, calls, args, ret>>

\* if patterns: save_to_archive(df_patterns, BASE_FILES["patterns"], date_str)
SavePatterns ==
  /\ pc = "save_patterns"
  /\ IF patterns # <<>>
       THEN SaveStep(PatternsTable(patterns), BASE_FILES.patterns)
       ELSE UNCHANGED <<files, saved>>
  /\ pc' = "save_ohlcv_1h"
  /\ UNCHANGED <<locals, log, executed, raised_at, history, calls, args, ret>>

\* save_to_archive(df_1h, BASE_FILES["ohlcv_1h"], date_str, header=True)
SaveOhlcv1h ==
  /\ pc = "save_ohlcv_1h"
  /\ SaveStep(OhlcvTable(df_1h), BASE_FILES.ohlcv_1h)
  /\ pc' = "save_ohlcv_1d"
  /\ UNCHANGED <<locals, log, executed, raised_at, history, calls, args, ret>>

\* save_to_archive(df_1d, BASE_FILES["ohlcv_1d"], date_str, header=True)
SaveOhlcv1d ==
  /\ pc = "save_ohlcv_1d"
  /\ SaveStep(OhlcvTable(df_1d), BASE_FILES.ohlcv_1d)
  /\ pc' = "log_results"
  /\ UNCHANGED <<locals, log, executed, raised_at, history, calls, args, ret>>

\* whether main calls save_to_archive at this position
SaveCalled ==
  \/ pc = "save_levels" /\ key_levels # <<>>
  \/ pc = "save_patterns" /\ patterns # <<>>
  \/ pc \in {"save_ohlcv_1h", "save_ohlcv_1d"}

\* os.makedirs or opening the file fails (OSError): nothing is written by
\* this call
SaveRaises ==
  /\ SaveCalled
  /\ Caught(pc)
  /\ UNCHANGED <<locals, files, executed, saved, history, calls, args, ret>>

\* the five logging.info calls that end the try block
LogResults ==
  /\ pc = "log_results"
  /\ log' = log \o << "info", "info", "info", "info", "info" >>
  /\ pc' = "done"
  /\ UNCHANGED <<locals, files, executed, raised_at, saved, history, calls,
                 args, ret>>

Init ==
  /\ pc = "idle"
  /\ runs = 0
  /\ date_str = NoDate
  /\ df_1h = Frame(<<>>)
  /\ df_1d = Frame(<<>>)
  /\ local_trend = "none"
  /\ global_trend = "none"
  /\ key_levels = <<>>
  /\ round_level = None
  /\ patterns = <<>>
  /\ reserve_status = ""
  /\ files = [p \in Paths |-> NoFile]
  /\ log = <<>>
  /\ files0 = [p \in Paths |-> NoFile]
  /\ executed = {}
  /\ raised_at = ""
  /\ saved = <<>>
  /\ calls = [p \in Paths |-> <<>>]
  /\ args = [fn |-> "main"]
  /\ ret = <<>>

Next ==
  \/ Start
  \/ Fetch1h
  \/ Fetch1d
  \/ FetchRaises
  \/ CheckEmpty
  \/ Analyse
  \/ AnalyseRaises
  \/ SaveLevels
  \/ SavePatterns
  \/ SaveOhlcv1h
  \/ SaveOhlcv1d
  \/ SaveRaises
  \/ LogResults

Spec == Init /\ [][Next]_vars

----------------------------------------------------------------------------
(* Claims about main *)

\* the datasets in the order main saves them
SaveOrder == << BASE_FILES.levels, BASE_FILES.patterns,
                BASE_FILES.ohlcv_1h, BASE_FILES.ohlcv_1d >>

SaveLabels == << "save_levels", "save_patterns", "save_ohlcv_1h", "save_ohlcv_1d" >>

\* the position in SaveOrder of the save that raised, 0 when the exception
\* came before the first save
RaisedIndex ==
  IF \E k \in 1..4 : SaveLabels[k] = raised_at
    THEN CHOOSE k \in 1..4 : SaveLabels[k] = raised_at
    ELSE 0

SeqRange(q) == { q[i] : i \in 1..Len(q) }

\* C1 as stated: an invocation that ends in the exception handler has
\* persisted nothing: the archive is what it was when the invocation started.
C1_NothingPersistedOnException == pc = "failed" => files = files0

\* C1 amended: an invocation whose exception is raised before the first
\* save_to_archive call (during a fetch or the analysis) has persisted
\* nothing; when a save_to_archive call raises, the files the earlier saves of
\* the invocation wrote keep what was written, and the files of the saves
\* not yet reached, like every other file of the archive, are untouched.
C1_PersistedUpToFailure ==
  pc = "failed" =>
    /\ RaisedIndex = 0 => (files = files0 /\ saved = <<>>)
    /\ \A k \in 1..4 :
         LET path == FilePath(date_str, SaveOrder[k])
         IN  /\ (k < RaisedIndex /\ SaveOrder[k] \in SeqRange(saved)) =>
                  /\ files[path].exists
                  /\ Len(files[path].rows) > Len(files0[path].rows)
             /\ (RaisedIndex # 0 /\ k > RaisedIndex) => files[path] = files0[path]
    /\ \A p \in Paths : p.dir # get_archive_path(date_str) => files[p] = files0[p]

\* C1 witness: the analysis of a second invocation raised while the archive
\* already held files of the first
C1_Witness ==
  /\ pc = "failed"
  /\ raised_at = "analyse"
  /\ \E p \in Paths : files0[p].exists /\ p.dir = get_archive_path(date_str)

\* C4: once both fetches have returned and the hourly or the daily series is
\* empty, main is at the emptiness test or has ended: no analysis routine has
\* been called, no save_to_archive call has been made, the archive is as it
\* was, and the ended run logged its start and the warning only.
C4_EmptyFetchEndsRun ==
  (/\ pc \notin {"idle", "fetch_1h", "fetch_1d"}
   /\ raised_at \notin {"fetch_1h", "fetch_1d"}
   /\ (Empty(df_1h) \/ Empty(df_1d)))
  => /\ pc \in {"check_empty", "done"}
     /\ executed = {}
     /\ saved = <<>>
     /\ files = files0
     /\ pc = "done" => log = << "info", "warning" >>

\* C4 witness: a run that ended on an empty daily series with hourly data
C4_Witness ==
  /\ pc = "done"
  /\ ~Empty(df_1h)
  /\ Empty(df_1d)
  /\ log = << "info", "warning" >>

----------------------------------------------------------------------------
(* One routine called on inputs drawn from bounded sets *)

\* main is not running
MainIdle ==
  /\ runs = 0
  /\ date_str = NoDate
  /\ df_1h = Frame(<<>>)
  /\ df_1d = Frame(<<>>)
  /\ local_trend = "none"
  /\ global_trend = "none"
  /\ key_levels = <<>>
  /\ round_level = None
  /\ patterns = <<>>
  /\ reserve_status = ""
  /\ files = [p \in Paths |-> NoFile]
  /\ log = <<>>
  /\ files0 = [p \in Paths |-> NoFile]
  /\ executed = {}
  /\ raised_at = ""
  /\ saved = <<>>
  /\ calls = [p \in Paths |-> <<>>]

mainState == <<runs, date_str, locals, files, log, files0, executed,
               raised_at, saved, calls>>

Return(value) ==
  /\ pc = "call"
  /\ ret' = value
  /\ pc' = "ret"
  /\ UNCHANGED <<mainState, args>>

AllSeries == SeqsUpTo(Bars, MaxLen)

----------------------------------------------------------------------------
(* calculate_atr on every series of at most MaxLen candles *)

AtrArgs == [df : { Frame(b) : b \in AllSeries }, period : 1..MaxPeriod]

InitAtr == MainIdle /\ pc = "call" /\ args \in AtrArgs /\ ret = <<>>

CallCalculateAtr == Return(calculate_atr(args.df, args.period))

SpecAtr == InitAtr /\ [][CallCalculateAtr]_vars

\* the true range of row i as the claim defines it
C6_TrueRange(bars, i) ==
  IF i = 1 THEN bars[1].high - bars[1].low
  ELSE Max({ bars[i].high - bars[i].low,
             Abs(bars[i].high - bars[i - 1].close),
             Abs(bars[i].low - bars[i - 1].close) })

RECURSIVE C6_SumTrueRange(_, _, _)
C6_SumTrueRange(bars, from, to) ==
  IF from > to THEN 0
  ELSE C6_TrueRange(bars, to) + C6_SumTrueRange(bars, from, to - 1)

C6_ConstantPrice(bars) ==
  \A i \in 1..Len(bars) :
    /\ bars[i].high = bars[1].high
    /\ bars[i].low = bars[1].high
    /\ bars[i].close = bars[1].high

\* C6: calculate_atr keeps the rows in order and gives each row one ATR
\* value, the mean of the true ranges of the trailing min(N, i) rows ending
\* at row i (rows counted from 1); an empty series gets none; a series at one
\* constant price has ATR 0 on every row.
C6_AtrIsTrailingMean ==
  pc = "ret" =>
    LET bars == args.df.bars
        n    == Len(bars)
    IN  /\ ret.bars = bars
        /\ Len(ret.atr) = n
        /\ n > 0 => ret.has_atr
        /\ \A i \in 1..n :
             LET k == IF args.period < i THEN args.period ELSE i
             IN  /\ ~ret.atr[i].nan
                 /\ ret.atr[i].den > 0
                 /\ ret.atr[i].num * k
                      = C6_SumTrueRange(bars, i - k + 1, i) * ret.atr[i].den
        /\ C6_ConstantPrice(bars) => \A i \in 1..n : ret.atr[i].num = 0

\* C6 witness: a series longer than the period, in which a true range comes
\* from the previous close and not from the row's own high-low
C6_Witness ==
  /\ pc = "ret"
  /\ Len(args.df.bars) > args.period
  /\ args.period > 1
  /\ \E i \in 2..Len(args.df.bars) :
       C6_TrueRange(args.df.bars, i) > args.df.bars[i].high - args.df.bars[i].low
  /\ ret.atr[Len(args.df.bars)].num > 0

----------------------------------------------------------------------------
(* check_patterns on the series of at most two candles, and on those of     *)
(* three candles that start with a fixed one, with every level list of at   *)
(* most MaxLevels levels and the 'atr' column absent, NaN or defined        *)

Levels == { Level(t, p, 1) : t \in {"resistance", "support"}, p \in Prices }

\* the 'atr' value of the rows: 0, 1/2, 5 and 15
AtrDefined == { Num(0), [nan |-> FALSE, num |-> 1, den |-> 2], Num(5), Num(15) }

WithAtr(df, v) ==
  [bars |-> df.bars, has_atr |-> TRUE, atr |-> [i \in 1..Len(df.bars) |-> v]]

PatternSeries ==
  SeqsUpTo(Bars, 2) \cup { << Bar(2, 2, 2) >> \o b : b \in [1..2 -> Bars] }

PatternFrames ==
  { Frame(b) : b \in PatternSeries }
  \cup { WithAtr(Frame(b), v) : b \in PatternSeries, v \in AtrDefined \cup {NaN} }

PatternArgs == [df : PatternFrames, levels : SeqsUpTo(Levels, MaxLevels)]

InitPatterns == MainIdle /\ pc = "call" /\ args \in PatternArgs /\ ret = <<>>

CallCheckPatterns == Return(check_patterns(args.df, args.levels))

SpecPatterns == InitPatterns /\ [][CallCheckPatterns]_vars

LastBar(df) == df.bars[Len(df.bars)]

PrevBar(df) == df.bars[Len(df.bars) - 1]

HasSignal(sigs, kind, price) ==
  \E i \in 1..Len(sigs) : sigs[i].kind = kind /\ sigs[i].price = price

HasLevel(levels, type, price) ==
  \E i \in 1..Len(levels) : levels[i].type = type /\ levels[i].price = price

\* C5: on a series of at least two candles and the one resistance level L
\* with previous high > L and last close < L the result is the single signal
\* (false_breakout, L, timestamp of the last candle); on a series of fewer
\* than two candles the result is empty whatever the levels.
C5_SingleFalseBreakout ==
  pc = "ret" =>
    LET df == args.df
        n  == Len(df.bars)
    IN  /\ n < 2 => ret = <<>>
        /\ (/\ n >= 2
            /\ Len(args.levels) = 1
            /\ args.levels[1].type = "resistance"
            /\ PrevBar(df).high > args.levels[1].price
            /\ LastBar(df).close < args.levels[1].price)
           => ret = << Signal("false_breakout", args.levels[1].price, n) >>

\* C5 witness: the returned call of the claim's first case, on three candles
C5_Witness ==
  /\ pc = "ret"
  /\ Len(args.df.bars) = 3
  /\ Len(args.levels) = 1
  /\ args.levels[1].type = "resistance"
  /\ PrevBar(args.df).high > args.levels[1].price
  /\ LastBar(args.df).close < args.levels[1].price
  /\ Len(ret) = 1

NonBounce(sigs) == SelectSeq(sigs, LAMBDA x : x.kind # "bounce")

\* C10: a bounce signal is emitted for a price only if a support level at
\* that price is in the list, the last row carries an ATR that is not NaN,
\* |last low - level| < ATR/10 and last close > level; with the ATR missing
\* or NaN there is no bounce signal, and the other signals are those of the
\* same call with any defined ATR.
C10_BounceNeedsAtr ==
  pc = "ret" =>
    LET df == args.df
        n  == Len(df.bars)
    IN  /\ \A i \in 1..Len(ret) :
             ret[i].kind = "bounce" =>
               /\ df.has_atr
               /\ ~df.atr[n].nan
               /\ \E j \in 1..Len(args.levels) :
                    /\ args.levels[j].type = "support"
                    /\ args.levels[j].price = ret[i].price
                    /\ Abs(LastBar(df).low - ret[i].price) * 10 * df.atr[n].den
                         < df.atr[n].num
                    /\ LastBar(df).close > ret[i].price
        /\ (~df.has_atr \/ (n > 0 /\ df.atr[n].nan)) =>
             /\ ~\E i \in 1..Len(ret) : ret[i].kind = "bounce"
             /\ \A v \in AtrDefined :
                  NonBounce(check_patterns(WithAtr(df, v), args.levels)) = ret

\* C10 witness: a call without the 'atr' column that emitted a signal, on
\* inputs that give a bounce once the ATR is defined
C10_Witness ==
  /\ pc = "ret"
  /\ ~args.df.has_atr
  /\ ret # <<>>
  /\ \E v \in AtrDefined :
       \E i \in 1..Len(check_patterns(WithAtr(args.df, v), args.levels)) :
         check_patterns(WithAtr(args.df, v), args.levels)[i].kind = "bounce"

----------------------------------------------------------------------------
(* determine_trend on an hourly series of at most one candle and every     *)
(* daily series of at most MaxDaily candles                                *)

FlatBar(c) == Bar(c, c, c)

TrendArgs ==
  [h : { Frame(<<>>), Frame(<< FlatBar(2) >>) },
   d : { Frame([i \in 1..Len(cs) |-> FlatBar(cs[i])]) : cs \in SeqsUpTo(Prices, MaxDaily) }]

InitTrend == MainIdle /\ pc = "call" /\ args \in TrendArgs /\ ret = <<>>

CallDetermineTrend == Return(determine_trend(args.h, args.d))

SpecTrend == InitTrend /\ [][CallDetermineTrend]_vars

\* C2: with a non-empty hourly series and a daily series of n candles, the
\* global trend is none for 1 <= n <= 5; for n >= 6 it is long when the last
\* daily close is greater than the close 5 candles before the last one (row
\* n-5 counting from 1), and short otherwise.
C2_GlobalTrendFiveBack ==
  (pc = "ret" /\ ~Empty(args.h) /\ ~Empty(args.d)) =>
    LET bars == args.d.bars
        n    == Len(bars)
    IN  ret[2] = IF n <= 5 THEN "none"
                 ELSE IF bars[n].close > bars[n - 5].close THEN "long"
                 ELSE "short"

----------------------------------------------------------------------------
(* find_key_levels on every series of at most MaxLen candles, and on the   *)
(* series longer than the rolling window (at most MaxKeyLen candles) that  *)
(* differ from a flat series in at most two places                         *)

SpikeBars == { Bar(2, 2, 2), Bar(3, 2, 2), Bar(2, 1, 2), Bar(3, 1, 2) }

LongSeries ==
  { [i \in 1..n |-> IF i = p1 THEN b1 ELSE IF i = p2 THEN b2 ELSE Bar(2, 2, 2)] :
      n \in (KEY_WINDOW + 1)..MaxKeyLen, p1 \in 1..MaxKeyLen, p2 \in 1..MaxKeyLen,
      b1 \in SpikeBars, b2 \in SpikeBars }

KeyArgs == [df : { Frame(b) : b \in AllSeries \cup LongSeries }]

InitKey == MainIdle /\ pc = "call" /\ args \in KeyArgs /\ ret = <<>>

CallFindKeyLevels == Return(find_key_levels(args.df))

SpecKey == InitKey /\ [][CallFindKeyLevels]_vars

\* the trailing min(20, i) rows ending at row i (rows counted from 1)
C7_Window(i) == { j \in 1..i : i - j < 20 }

C7_IsResistance(bars, i) == \A j \in C7_Window(i) : bars[j].high <= bars[i].high

C7_IsSupport(bars, i) == \A j \in C7_Window(i) : bars[j].low >= bars[i].low

\* C7: the result holds (resistance, high[i], ts[i]) exactly for the interior
\* rows i whose high is the greatest of its trailing window, and (support,
\* low[i], ts[i]) exactly for the interior rows whose low is the least of that
\* window; the levels come in increasing order of i, resistance before
\* support on one row, each row emitting its own (equal extremes are kept);
\* fewer than three rows give no level.
C7_KeyLevelsAreWindowExtremes ==
  pc = "ret" =>
    LET bars     == args.df.bars
        n        == Len(bars)
        Interior == { i \in 1..n : 2 <= i /\ i <= n - 1 }
    IN  /\ n < 3 => ret = <<>>
        /\ \A k \in 1..Len(ret) :
             /\ ret[k].ts \in Interior
             /\ ret[k].type = "resistance" =>
                  (C7_IsResistance(bars, ret[k].ts) /\ ret[k].price = bars[ret[k].ts].high)
             /\ ret[k].type = "support" =>
                  (C7_IsSupport(bars, ret[k].ts) /\ ret[k].price = bars[ret[k].ts].low)
             /\ ret[k].type \in {"resistance", "support"}
        /\ \A i \in Interior :
             /\ C7_IsResistance(bars, i) =>
                  \E k \in 1..Len(ret) : ret[k] = Level("resistance", bars[i].high, i)
             /\ C7_IsSupport(bars, i) =>
                  \E k \in 1..Len(ret) : ret[k] = Level("support", bars[i].low, i)
        /\ \A k \in 1..Len(ret) : \A m \in 1..Len(ret) :
             k < m =>
               \/ ret[k].ts < ret[m].ts
               \/ (ret[k].ts = ret[m].ts /\ ret[k].type = "resistance"
                   /\ ret[m].type = "support")

\* C7 witness: a series longer than the window in which a row is a
\* resistance level although an earlier row, outside its window, is higher,
\* and in which two rows give a support level at the same price
C7_Witness ==
  /\ pc = "ret"
  /\ \E k \in 1..Len(ret) :
       /\ ret[k].type = "resistance"
       /\ \E j \in 1..ret[k].ts : args.df.bars[j].high > ret[k].price
  /\ \E k \in 1..Len(ret) : \E m \in 1..Len(ret) :
       /\ k < m
       /\ ret[k].type = "support"
       /\ ret[m].type = "support"
       /\ ret[k].price = ret[m].price

----------------------------------------------------------------------------
(* find_round_levels on the prices 0..MaxRoundPrice and NaN, with every    *)
(* list of distinct granularities taken from ROUND_LEVELS                  *)

Granularities == { ROUND_LEVELS[i] : i \in 1..Len(ROUND_LEVELS) }

GranularityLists ==
  { g \in SeqsUpTo(Granularities, Len(ROUND_LEVELS)) :
      \A i \in 1..Len(g) : \A j \in 1..Len(g) : i # j => g[i] # g[j] }

RoundArgs ==
  [price : { Num(x) : x \in 0..MaxRoundPrice } \cup {NaN},
   round_levels : GranularityLists]

InitRound == MainIdle /\ pc = "call" /\ args \in RoundArgs /\ ret = <<>>

CallFindRoundLevels == Return(find_round_levels(args.price, args.round_levels))

SpecRound == InitRound /\ [][CallFindRoundLevels]_vars

\* the multiples of G within tolerance of the price: |price - m| < G/10
C8_NearMultiples(price, G) ==
  { m \in { k * G : k \in 0..(price \div G + 1) } : Abs(price - m) * 10 < G }

\* C8: for a defined price the result is the multiple of the first
\* granularity G of the list that has a multiple within G/10 of the price
\* (that multiple is then the nearest one), and none when no granularity has
\* one; so with [1000, 500, 100], 1005 gives 1000 and 260 gives none.
C8_FirstGranularityWithinTolerance ==
  (pc = "ret" /\ ~args.price.nan) =>
    LET price == args.price.num
        gs    == args.round_levels
        Hits  == { i \in 1..Len(gs) : C8_NearMultiples(price, gs[i]) # {} }
    IN  /\ Hits = {} => ret = None
        /\ Hits # {} =>
             LET first == Min(Hits)
             IN  /\ ~ret.none
                 /\ ret.v \in C8_NearMultiples(price, gs[first])
                 /\ \A m \in { k * gs[first] : k \in 0..(price \div gs[first] + 1) } :
                      Abs(price - ret.v) <= Abs(price - m)
        /\ (price = 1005 /\ gs = ROUND_LEVELS) => ret = Some(1000)
        /\ (price = 260 /\ gs = ROUND_LEVELS) => ret = None

\* C8 witness: 1005 with [1000, 500, 100], within tolerance of a multiple of
\* 1000 and of a multiple of 100, resolved to 1000
C8_Witness ==
  /\ pc = "ret"
  /\ args.price = Num(1005)
  /\ args.round_levels = ROUND_LEVELS
  /\ C8_NearMultiples(1005, 100) # {}
  /\ ret = Some(1000)

----------------------------------------------------------------------------
(* save_to_archive called at most MaxCalls times on an empty archive       *)

ArchiveTables == { [columns |-> << "c" >>, rows |-> r] : r \in { <<>>, << 1 >>, << 2 >> } }

ArchiveNames == { BASE_FILES.levels, BASE_FILES.ohlcv_1h }

TotalCalls == SumOver([p \in Paths |-> Len(calls[p])], Paths)

InitArchive == MainIdle /\ pc = "archive" /\ args = [fn |-> "save_to_archive"] /\ ret = <<>>

CallSaveToArchive ==
  /\ pc = "archive"
  /\ TotalCalls < MaxCalls
  /\ \E table \in ArchiveTables, name \in ArchiveNames, d \in Dates, header \in BOOLEAN :
       /\ files' = save_to_archive(files, table, name, d, header)
       /\ calls' = [calls EXCEPT ![FilePath(d, name)] =
                      Append(@, [table |-> table, header |-> header])]
  /\ UNCHANGED <<pc, runs, date_str, locals, log, files0, executed, raised_at,
                 saved, args, ret>>

SpecArchive == InitArchive /\ [][CallSaveToArchive]_vars

RECURSIVE C3_AllDataRows(_)
C3_AllDataRows(cs) ==
  IF cs = <<>> THEN <<>>
  ELSE [i \in 1..Len(cs[1].table.rows) |-> DataRow(cs[1].table.rows[i])]
       \o C3_AllDataRows(Tail(cs))

\* C3: a file that did not exist and has since been the target of one or more
\* save_to_archive calls, all with header=True and a non-empty table, consists
\* of one header line, first, followed by the data rows of every call in call
\* order.
C3_OneHeaderThenRowsInOrder ==
  \A p \in Paths :
    (/\ calls[p] # <<>>
     /\ \A i \in 1..Len(calls[p]) : calls[p][i].header /\ calls[p][i].table.rows # <<>>)
    => /\ files[p].exists
       /\ files[p].rows # <<>>
       /\ files[p].rows[1] = HeaderRow(calls[p][1].table.columns)
       /\ \A i \in 2..Len(files[p].rows) : ~files[p].rows[i].hdr
       /\ Tail(files[p].rows) = C3_AllDataRows(calls[p])

\* C3 witness: a file written by three such calls, with different rows
C3_Witness ==
  \E p \in Paths :
    /\ Len(calls[p]) = 3
    /\ \A i \in 1..3 : calls[p][i].header /\ calls[p][i].table.rows # <<>>
    /\ calls[p][1].table # calls[p][2].table
    /\ Len(files[p].rows) = 4

====
